---- MODULE Spec2Model ----
(***************************************************************************)
(* Model of Sources/CPty/pty_bridge.c: kobold_forkpty (spawn),             *)
(* kobold_pty_resize (resize), sigchld_handler (the child reaper) and      *)
(* kobold_init_signal_handlers (install), run by several host threads,     *)
(* together with the part of the operating system they act on: the         *)
(* descriptor table, the PTYs, the child processes and SIGCHLD.            *)
(***************************************************************************)
EXTENDS Integers, Sequences, FiniteSets, TLC

(* ------------------------------ bounds --------------------------------- *)
\* host threads that call into the module; each makes one call, so a host
\* thread that calls again counts as another one
NThreads == 2
\* descriptors the host can have open for PTY masters: 3 .. 2 + NFd
NFd == 2
\* process ids the system hands out: 1 .. NPid
NPid == 2
\* calls of kobold_init_signal_handlers in one run
MaxInstall == 2
\* longest generated path of the argv[0] derivation
MaxPathLen == 4

Threads == 1..NThreads
FDs == 3..(2 + NFd)
PIDs == 1..NPid
NoThread == 0

(* --------------------------- call arguments ---------------------------- *)
\* (rows, cols) a caller passes to resize; the last does not fit 16 bits
Sizes == { << 24, 80 >>, << 65537, 80 >> }

BinZsh == << "/", "b", "i", "n", "/", "z", "s", "h" >>
Nonexistent ==
    << "/", "n", "o", "n", "e", "x", "i", "s", "t", "e", "n", "t",
       "/", "p", "a", "t", "h" >>

\* what the file system can execute: every path but the nonexistent one,
\* the empty one and those that name a directory
Executable(path) ==
    /\ path # Nonexistent
    /\ path # << >>
    /\ path[Len(path)] # "/"

\* (shell_path, rows, cols) a caller passes to spawn
SpawnArgs == { << BinZsh, 24, 80 >>, << Nonexistent, 65537, 80 >> }

\* the paths of the argv[0] derivation: every text of at most MaxPathLen
\* characters over PathChars, and file names around the size of login_arg
PathChars == { "/", "a", "b" }

Texts(n) == UNION { [ 1..k -> PathChars ] : k \in 0..n }

LongName(n) == << "/" >> \o [ i \in 1..n |-> "a" ]

ArgvArgs(size) ==
    { << p, 24, 80 >> :
        p \in Texts(MaxPathLen) \cup { LongName(size - 2), LongName(size - 1) } }

\* the sizes of the LINES and COLUMNS derivation: values around the 16 bits
\* of the window-size fields, for a shell that can be executed
SizeArgs ==
    { << BinZsh, r, c >> : r, c \in { 1, 24, 65535, 65536, 65537 } }

\* descriptors a caller passes to resize: any number, open or not
FdArgs == FDs \cup { -1 }

(* ------------------------------ C library ------------------------------ *)
Min(a, b) == IF a < b THEN a ELSE b

\* (unsigned short)x
U16(x) == x % (2 ^ 16)

Digit(d) == << "0", "1", "2", "3", "4", "5", "6", "7", "8", "9" >>[d + 1]

RECURSIVE Digits(_)
Digits(n) == IF n < 10 THEN << Digit(n) >>
             ELSE Append(Digits(n \div 10), Digit(n % 10))

\* snprintf(buf, size, ...): at most size - 1 characters are stored
Truncate(s, size) == SubSeq(s, 1, Min(Len(s), size - 1))

\* snprintf(buf, 32, "%d", n)
FormatD(n) ==
    Truncate(IF n < 0 THEN << "-" >> \o Digits(-n) ELSE Digits(n), 32)

\* strrchr(s, ch): index of the last ch in s, 0 when there is none
StrRChr(s, ch) ==
    LET hits == { i \in 1..Len(s) : s[i] = ch }
    IN  IF hits = {} THEN 0 ELSE CHOOSE i \in hits : \A j \in hits : j <= i

\* shell_name: the text after the last '/', or all of shell_path
ShellName(shell_path) ==
    LET slash == StrRChr(shell_path, "/")
    IN  IF slash # 0 THEN SubSeq(shell_path, slash + 1, Len(shell_path))
        ELSE shell_path

\* char login_arg[256]
LoginArgSize == 256

\* snprintf(login_arg, sizeof(login_arg), "-%s", shell_name)
LoginArg(shell_path) ==
    Truncate(<< "-" >> \o ShellName(shell_path), LoginArgSize)

(* ------------------------------- signals ------------------------------- *)
Signals ==
    { "SIGINT", "SIGQUIT", "SIGTSTP", "SIGPIPE", "SIGCHLD", "SIGHUP",
      "SIGTERM" }

Disposition(handler, flags, mask) ==
    [ handler |-> handler, flags |-> flags, mask |-> mask ]

DefaultDisposition == Disposition("SIG_DFL", {}, {})
\* what the host application has installed outside this module
HostDisposition == Disposition("host_handler", {"SA_RESTART"}, {"SIGINT"})
\* struct sigaction sa of kobold_init_signal_handlers
ReaperDisposition ==
    Disposition("sigchld_handler", {"SA_RESTART", "SA_NOCLDSTOP"}, {})

\* the signal dispositions of the host when the module is first used
HostSignals ==
    [ s \in Signals |->
        IF s = "SIGCHLD" THEN DefaultDisposition ELSE HostDisposition ]

\* sigaction(sig, &sa, NULL) on a table of dispositions
Sigaction(act, sig, sa) == [ act EXCEPT ![sig] = sa ]

\* the environment variables the child sets, as the host has them
HostEnv ==
    [ TERM |-> "", LANG |-> "", COLORTERM |-> "", COLUMNS |-> << >>,
      LINES |-> << >> ]

VARIABLES
    pc,          \* pc[t]: where thread t is in its call
    hpc,         \* hpc[t]: "loop" while t runs sigchld_handler on its stack
    loc,         \* loc[t]: arguments, locals and result of the call of t
    pty_mutex,   \* the thread holding pty_mutex, NoThread when free
    ptys,        \* the PTYs created so far, in order of creation
    children,    \* the child processes forked so far, in order of creation
    sigact,      \* the signal dispositions of the host process
    pending,     \* SIGCHLD is pending for the host process
    ninstall     \* calls of kobold_init_signal_handlers so far

vars ==
    << pc, hpc, loc, pty_mutex, ptys, children, sigact, pending, ninstall >>

\* the frame of a thread that has made no call
NoCall ==
    [ op |-> "none", shell_path |-> << >>, rows |-> 0, cols |-> 0,
      fd |-> -1, ws_row |-> 0, ws_col |-> 0, master_fd |-> -1, pid |-> 0,
      child_pid |-> 0, ret |-> 0, nret |-> 0,
      \* on record for the properties: the PTY and the child the call
      \* created or addressed, whether fd was open at the call, the PTYs
      \* and children that existed when the call took the lock, and what
      \* the call had added to them when it returned
      \* and whether the handler ran on the thread inside the critical section
      pty |-> 0, child |-> 0, valid_at_call |-> FALSE, interrupted |-> FALSE,
      ptys0 |-> 0, children0 |-> 0,
      new_ptys |-> 0, new_children |-> 0, new_open |-> 0 ]

Init ==
    /\ pc = [ t \in Threads |-> "idle" ]
    /\ hpc = [ t \in Threads |-> "none" ]
    /\ loc = [ t \in Threads |-> NoCall ]
    /\ pty_mutex = NoThread
    /\ ptys = << >>
    /\ children = << >>
    /\ sigact = HostSignals
    /\ pending = FALSE
    /\ ninstall = 0

(* ------------------------- the operating system ------------------------ *)
\* the PTY whose master is open in the host under descriptor fd, 0 if none
PtyOf(fd) ==
    LET hits == { i \in 1..Len(ptys) : ptys[i].open /\ ptys[i].fd = fd }
    IN  IF hits = {} THEN 0 ELSE CHOOSE i \in hits : TRUE

OpenPtys == { i \in 1..Len(ptys) : ptys[i].open }

OpenFds == { ptys[i].fd : i \in OpenPtys }

\* a descriptor table that forgets what is open
LowestFree_Forgetful(used) == CHOOSE fd \in FDs : \A g \in FDs : fd <= g

\* open() returns the lowest descriptor that is not open
LowestFree(used) ==
    CHOOSE fd \in FDs \ used : \A g \in FDs \ used : fd <= g

\* a pid is in use until its process has been waited for
PidsInUse ==
    { children[i].pid :
        i \in { j \in 1..Len(children) : children[j].st # "reaped" } }

Zombies == { i \in 1..Len(children) : children[i].st = "zombie" }

\* what is left of a child once it has been waited for: nothing but the fact
ReapedChild ==
    [ pid |-> 0, pty |-> 0, st |-> "reaped", status |-> 0,
      shell_path |-> << >>, rows |-> 0, cols |-> 0, mutex |-> "free",
      env |-> HostEnv, login_arg |-> << >>, argv |-> << >>,
      sig |-> [ s \in Signals |-> DefaultDisposition ], log |-> << >>,
      masters |-> {}, notified |-> FALSE, inherited |-> HostSignals ]

\* what is left to the host of a PTY whose master it has closed
ClosedPty ==
    [ fd |-> -1, open |-> FALSE, owned |-> TRUE, row |-> 0, col |-> 0 ]

\* a child terminates: SIGCHLD is raised for the host, unless its
\* disposition is the default one, which ignores it
RaisesSigchld == sigact["SIGCHLD"].handler # "SIG_DFL"

(* --------------------------- pty_mutex --------------------------------- *)
\* a lock that does not wait for the holder
MutexLock_NoWait(t) == pty_mutex' = t

\* pthread_mutex_lock(&pty_mutex): blocks while another thread holds it
MutexLock(t) == pty_mutex = NoThread /\ pty_mutex' = t

\* pthread_mutex_unlock(&pty_mutex)
MutexUnlock(t) == pty_mutex' = NoThread

\* between pthread_mutex_lock and the matching unlock
CriticalSection ==
    { "sp_forkpty", "sp_fail", "sp_parent", "rs_ioctl", "rs_fail", "rs_ok" }

InCritical(t) == pc[t] \in CriticalSection

\* thread t runs its own code, not a signal handler on top of it
Running(t) == hpc[t] = "none"

\* a call returns ret to its caller, with *child_pid as the call left it;
\* the frame of the call is gone, the record of what it did stays
Returned(frame, ret, child_pid) ==
    [ NoCall EXCEPT !.op = frame.op, !.ret = ret, !.child_pid = child_pid,
                    !.nret = frame.nret + 1, !.fd = frame.fd,
                    !.pty = frame.pty,
                    !.child = frame.child,
                    !.valid_at_call = frame.valid_at_call,
                    !.interrupted = frame.interrupted,
                    !.new_ptys =
                        IF frame.op = "spawn"
                        THEN Len(ptys) - frame.ptys0 ELSE 0,
                    !.new_children =
                        IF frame.op = "spawn"
                        THEN Len(children) - frame.children0 ELSE 0,
                    !.new_open =
                        IF frame.op = "spawn"
                        THEN Cardinality({ i \in OpenPtys :
                                             i > frame.ptys0 })
                        ELSE 0 ]

(* --------------------------- kobold_forkpty ---------------------------- *)
\* the call, with arguments from args, and lines 16-19: ws is built from
\* the arguments
SpawnCallWith(t, args) ==
    /\ pc[t] = "idle" /\ Running(t)
    /\ \E a \in args :
          loc' = [ loc EXCEPT ![t] =
                     [ NoCall EXCEPT !.op = "spawn", !.shell_path = a[1],
                                     !.rows = a[2], !.cols = a[3],
                                     !.ws_row = U16(a[2]),
                                     !.ws_col = U16(a[3]) ] ]
    /\ pc' = [ pc EXCEPT ![t] = "sp_lock" ]
    /\ UNCHANGED << hpc, pty_mutex, ptys, children, sigact, pending,
                    ninstall >>

SpawnCall(t) == SpawnCallWith(t, SpawnArgs)

\* line 22
SpawnLock(t) ==
    /\ pc[t] = "sp_lock" /\ Running(t)
    /\ MutexLock(t)
    /\ loc' = [ loc EXCEPT ![t].ptys0 = Len(ptys),
                           ![t].children0 = Len(children) ]
    /\ pc' = [ pc EXCEPT ![t] = "sp_forkpty" ]
    /\ UNCHANGED << hpc, ptys, children, sigact, pending, ninstall >>

\* forkpty fails: openpty found no descriptor, or fork failed and forkpty
\* closed the master and the slave again; nothing is left behind
ForkptyFails(t) ==
    /\ loc' = [ loc EXCEPT ![t].pid = -1 ]
    /\ pc' = [ pc EXCEPT ![t] = "sp_fail" ]
    /\ UNCHANGED << ptys, children >>

\* the process the fork gives: a copy of the calling thread (its arguments,
\* the mutex it holds, the dispositions and the open descriptors of the
\* host); forkpty's child side closes the new master and makes the slave
\* the terminal of the child
ForkedChild(t, pid, pty) ==
    [ pid |-> pid, pty |-> pty, st |-> "forked", status |-> 0,
      shell_path |-> loc[t].shell_path, rows |-> loc[t].rows,
      cols |-> loc[t].cols, mutex |-> "held", env |-> HostEnv,
      login_arg |-> << >>, argv |-> << >>, sig |-> sigact, log |-> << >>,
      masters |-> OpenPtys, notified |-> FALSE,
      \* on record for the properties: the dispositions the fork copied
      inherited |-> sigact ]

\* forkpty succeeds: a new PTY with the size ws, its master on the lowest
\* free descriptor of the parent, and a new process with a pid not in use
ForkptySucceeds(t, pid) ==
    LET master == LowestFree(OpenFds)
        pty == Len(ptys) + 1
    IN  /\ ptys' = Append(ptys, [ fd |-> master, open |-> TRUE,
                                  owned |-> FALSE, row |-> loc[t].ws_row,
                                  col |-> loc[t].ws_col ])
        /\ children' = Append(children, ForkedChild(t, pid, pty))
        /\ loc' = [ loc EXCEPT ![t].master_fd = master, ![t].pid = pid,
                               ![t].pty = pty,
                               ![t].child = Len(children) + 1 ]
        /\ pc' = [ pc EXCEPT ![t] = "sp_parent" ]

\* line 25, as the parent sees it: the master needs a descriptor and the
\* child a pid, and the system may refuse for reasons of its own
Forkpty(t) ==
    /\ pc[t] = "sp_forkpty" /\ Running(t)
    /\ \/ ForkptyFails(t)
       \/ /\ FDs \ OpenFds # {}
          /\ \E pid \in PIDs \ PidsInUse : ForkptySucceeds(t, pid)
    /\ UNCHANGED << hpc, pty_mutex, sigact, pending, ninstall >>

\* the failure path without line 29
SpawnFail_NoUnlock(t) ==
    /\ pc[t] = "sp_fail" /\ Running(t)
    /\ loc' = [ loc EXCEPT ![t] = Returned(loc[t], -1, loc[t].child_pid) ]
    /\ pc' = [ pc EXCEPT ![t] = "done" ]
    /\ UNCHANGED << hpc, pty_mutex, ptys, children, sigact, pending,
                    ninstall >>

\* lines 27-31: pid < 0
SpawnFail(t) ==
    /\ pc[t] = "sp_fail" /\ Running(t)
    /\ MutexUnlock(t)
    /\ loc' = [ loc EXCEPT ![t] = Returned(loc[t], -1, loc[t].child_pid) ]
    /\ pc' = [ pc EXCEPT ![t] = "done" ]
    /\ UNCHANGED << hpc, ptys, children, sigact, pending, ninstall >>

\* a parent that looks at its child and reports a failed exec
SpawnParent_ReportsExec(t) ==
    /\ pc[t] = "sp_parent" /\ Running(t)
    /\ MutexUnlock(t)
    /\ loc' = [ loc EXCEPT ![t] =
                 Returned(loc[t],
                          IF children[loc[t].child].status = 127
                          THEN -1 ELSE loc[t].master_fd,
                          loc[t].pid) ]
    /\ ptys' = [ ptys EXCEPT ![loc[t].pty].owned = TRUE ]
    /\ pc' = [ pc EXCEPT ![t] = "done" ]
    /\ UNCHANGED << hpc, children, sigact, pending, ninstall >>

\* the parent path without line 83
SpawnParent_NoUnlock(t) ==
    /\ pc[t] = "sp_parent" /\ Running(t)
    /\ loc' = [ loc EXCEPT ![t] =
                 Returned(loc[t], loc[t].master_fd, loc[t].pid) ]
    /\ ptys' = [ ptys EXCEPT ![loc[t].pty].owned = TRUE ]
    /\ pc' = [ pc EXCEPT ![t] = "done" ]
    /\ UNCHANGED << hpc, pty_mutex, children, sigact, pending, ninstall >>

\* the parent path without line 82
SpawnParent_NoPid(t) ==
    /\ pc[t] = "sp_parent" /\ Running(t)
    /\ MutexUnlock(t)
    /\ loc' = [ loc EXCEPT ![t] =
                 Returned(loc[t], loc[t].master_fd, loc[t].child_pid) ]
    /\ ptys' = [ ptys EXCEPT ![loc[t].pty].owned = TRUE ]
    /\ pc' = [ pc EXCEPT ![t] = "done" ]
    /\ UNCHANGED << hpc, children, sigact, pending, ninstall >>

\* lines 81-84: the parent; the caller owns the descriptor from here on
SpawnParent(t) ==
    /\ pc[t] = "sp_parent" /\ Running(t)
    /\ MutexUnlock(t)
    /\ loc' = [ loc EXCEPT ![t] =
                 Returned(loc[t], loc[t].master_fd, loc[t].pid) ]
    /\ ptys' = [ ptys EXCEPT ![loc[t].pty].owned = TRUE ]
    /\ pc' = [ pc EXCEPT ![t] = "done" ]
    /\ UNCHANGED << hpc, children, sigact, pending, ninstall >>

(* ---------------------- the child branch, lines 33-79 ------------------ *)
\* the child branch without line 36
ChildUnlock_None(c) == c

\* line 36
ChildUnlock(c) ==
    [ c EXCEPT !.mutex = "free", !.log = Append(@, "unlock") ]

\* lines 38-47
ChildSetenv(c) ==
    [ c EXCEPT !.env = [ TERM |-> "xterm-256color", LANG |-> "de_DE.UTF-8",
                         COLORTERM |-> "truecolor",
                         COLUMNS |-> FormatD(c.cols),
                         LINES |-> FormatD(c.rows) ],
               !.log = Append(@, "setenv") ]

\* lines 49-59
ChildLoginArg(c) ==
    [ c EXCEPT !.login_arg = LoginArg(c.shell_path),
               !.log = Append(@, "login_arg") ]

\* lines 61-74 without line 72
ChildResetSignals_NoChld(c) ==
    [ c EXCEPT !.sig = [ s \in Signals |->
                           IF s = "SIGCHLD" THEN @[s]
                           ELSE DefaultDisposition ],
               !.log = Append(@, "sigaction") ]

\* lines 61-74
ChildResetSignals(c) ==
    [ c EXCEPT !.sig = [ s \in Signals |-> DefaultDisposition ],
               !.log = Append(@, "sigaction") ]

\* the exec without line 78: after a failed exec the child runs on into the
\* code of the host
ChildExecl_NoExit(c) ==
    IF Executable(c.shell_path)
    THEN [ c EXCEPT !.st = "shell", !.argv = << c.login_arg >>,
                    !.log = Append(@, "execl") ]
    ELSE [ c EXCEPT !.st = "returned", !.log = Append(@, "execl") ]

\* lines 76-78: the shell replaces the image, or the child ends with 127
\* and the system closes what it had open
ChildExecl(c) ==
    IF Executable(c.shell_path)
    THEN [ c EXCEPT !.st = "shell", !.argv = << c.login_arg >>,
                    !.log = Append(@, "execl") ]
    ELSE [ c EXCEPT !.st = "zombie", !.status = 127, !.masters = {},
                    !.notified = RaisesSigchld,
                    !.log = Append(Append(@, "execl"), "_exit") ]

\* lines 33-79 in their order, each step on the outcome of the one before
ChildBranch(c) ==
    CHOOSE c5 \in
        { ChildExecl(c4) : c4 \in
            { ChildResetSignals(c3) : c3 \in
                { ChildLoginArg(c2) : c2 \in
                    { ChildSetenv(c1) : c1 \in { ChildUnlock(c) } } } } } :
        TRUE

\* the child process runs its branch, from the fork to the exec
ChildRun(i) ==
    /\ i \in 1..Len(children)
    /\ children[i].st = "forked"
    /\ children' = [ children EXCEPT ![i] = ChildBranch(@) ]
    /\ pending' = (pending \/ (children'[i].st = "zombie" /\ RaisesSigchld))
    /\ UNCHANGED << pc, hpc, loc, pty_mutex, ptys, sigact, ninstall >>

\* the shell ends, at a time of its own choosing
ShellExit(i) ==
    /\ i \in 1..Len(children)
    /\ children[i].st = "shell"
    /\ children' = [ children EXCEPT ![i].st = "zombie", ![i].status = 0,
                                     ![i].masters = {},
                                     ![i].notified = RaisesSigchld ]
    /\ pending' = (pending \/ RaisesSigchld)
    /\ UNCHANGED << pc, hpc, loc, pty_mutex, ptys, sigact, ninstall >>

(* -------------------------- kobold_pty_resize -------------------------- *)
\* lines 96-97 with rows and cols mixed up
ResizeCall_Swapped(t) ==
    /\ pc[t] = "idle" /\ Running(t)
    /\ \E fd \in FdArgs, size \in Sizes :
          loc' = [ loc EXCEPT ![t] =
                     [ NoCall EXCEPT !.op = "resize", !.fd = fd,
                                     !.rows = size[1], !.cols = size[2],
                                     !.ws_row = U16(size[2]),
                                     !.ws_col = U16(size[1]),
                                     !.valid_at_call = (PtyOf(fd) # 0) ] ]
    /\ pc' = [ pc EXCEPT ![t] = "rs_lock" ]
    /\ UNCHANGED << hpc, pty_mutex, ptys, children, sigact, pending,
                    ninstall >>

\* the call and lines 94-97
ResizeCall(t) ==
    /\ pc[t] = "idle" /\ Running(t)
    /\ \E fd \in FdArgs, size \in Sizes :
          loc' = [ loc EXCEPT ![t] =
                     [ NoCall EXCEPT !.op = "resize", !.fd = fd,
                                     !.rows = size[1], !.cols = size[2],
                                     !.ws_row = U16(size[1]),
                                     !.ws_col = U16(size[2]),
                                     !.valid_at_call = (PtyOf(fd) # 0) ] ]
    /\ pc' = [ pc EXCEPT ![t] = "rs_lock" ]
    /\ UNCHANGED << hpc, pty_mutex, ptys, children, sigact, pending,
                    ninstall >>

\* line 100
ResizeLock(t) ==
    /\ pc[t] = "rs_lock" /\ Running(t)
    /\ MutexLock(t)
    /\ pc' = [ pc EXCEPT ![t] = "rs_ioctl" ]
    /\ UNCHANGED << hpc, loc, ptys, children, sigact, pending, ninstall >>

\* an ioctl that fails after it has written the size to another PTY
Ioctl_FailWrites(t) ==
    /\ pc[t] = "rs_ioctl" /\ Running(t)
    /\ LET pty == PtyOf(loc[t].fd)
       IN  IF pty = 0
           THEN /\ pc' = [ pc EXCEPT ![t] = "rs_fail" ]
                /\ ptys' = [ i \in 1..Len(ptys) |->
                               IF ptys[i].open
                               THEN [ ptys[i] EXCEPT !.row = loc[t].ws_row,
                                                     !.col = loc[t].ws_col ]
                               ELSE ptys[i] ]
                /\ UNCHANGED loc
           ELSE /\ ptys' = [ ptys EXCEPT ![pty].row = loc[t].ws_row,
                                         ![pty].col = loc[t].ws_col ]
                /\ loc' = [ loc EXCEPT ![t].pty = pty ]
                /\ pc' = [ pc EXCEPT ![t] = "rs_ok" ]
    /\ UNCHANGED << hpc, pty_mutex, children, sigact, pending, ninstall >>

\* an ioctl that sets the size of every open PTY
Ioctl_AllPtys(t) ==
    /\ pc[t] = "rs_ioctl" /\ Running(t)
    /\ LET pty == PtyOf(loc[t].fd)
       IN  IF pty = 0
           THEN /\ pc' = [ pc EXCEPT ![t] = "rs_fail" ]
                /\ UNCHANGED << loc, ptys >>
           ELSE /\ ptys' = [ i \in 1..Len(ptys) |->
                               IF ptys[i].open
                               THEN [ ptys[i] EXCEPT !.row = loc[t].ws_row,
                                                     !.col = loc[t].ws_col ]
                               ELSE ptys[i] ]
                /\ loc' = [ loc EXCEPT ![t].pty = pty ]
                /\ pc' = [ pc EXCEPT ![t] = "rs_ok" ]
    /\ UNCHANGED << hpc, pty_mutex, children, sigact, pending, ninstall >>

\* line 102: ioctl(master_fd, TIOCSWINSZ, &ws) sets the size of the PTY
\* the descriptor refers to, and fails when it refers to none
Ioctl(t) ==
    /\ pc[t] = "rs_ioctl" /\ Running(t)
    /\ LET pty == PtyOf(loc[t].fd)
       IN  IF pty = 0
           THEN /\ pc' = [ pc EXCEPT ![t] = "rs_fail" ]
                /\ UNCHANGED << loc, ptys >>
           ELSE /\ ptys' = [ ptys EXCEPT ![pty].row = loc[t].ws_row,
                                         ![pty].col = loc[t].ws_col ]
                /\ loc' = [ loc EXCEPT ![t].pty = pty ]
                /\ pc' = [ pc EXCEPT ![t] = "rs_ok" ]
    /\ UNCHANGED << hpc, pty_mutex, children, sigact, pending, ninstall >>

\* the failure path returning 0
ResizeFail_Zero(t) ==
    /\ pc[t] = "rs_fail" /\ Running(t)
    /\ MutexUnlock(t)
    /\ loc' = [ loc EXCEPT ![t] = Returned(loc[t], 0, 0) ]
    /\ pc' = [ pc EXCEPT ![t] = "done" ]
    /\ UNCHANGED << hpc, ptys, children, sigact, pending, ninstall >>

\* lines 103-104
ResizeFail(t) ==
    /\ pc[t] = "rs_fail" /\ Running(t)
    /\ MutexUnlock(t)
    /\ loc' = [ loc EXCEPT ![t] = Returned(loc[t], -1, 0) ]
    /\ pc' = [ pc EXCEPT ![t] = "done" ]
    /\ UNCHANGED << hpc, ptys, children, sigact, pending, ninstall >>

\* lines 107-108
ResizeOk(t) ==
    /\ pc[t] = "rs_ok" /\ Running(t)
    /\ MutexUnlock(t)
    /\ loc' = [ loc EXCEPT ![t] = Returned(loc[t], 0, 0) ]
    /\ pc' = [ pc EXCEPT ![t] = "done" ]
    /\ UNCHANGED << hpc, ptys, children, sigact, pending, ninstall >>

(* ------------------------------ the reaper ----------------------------- *)
\* an install that hands back the disposition it finds when it is the
\* handler already
InitSignalHandlers_Toggle ==
    /\ ninstall < MaxInstall
    /\ sigact' = Sigaction(sigact, "SIGCHLD",
                           IF sigact["SIGCHLD"] = ReaperDisposition
                           THEN DefaultDisposition ELSE ReaperDisposition)
    /\ ninstall' = ninstall + 1
    /\ UNCHANGED << pc, hpc, loc, pty_mutex, ptys, children, pending >>

\* lines 112-120, called by the host outside the calls above
InitSignalHandlers ==
    /\ ninstall < MaxInstall
    /\ sigact' = Sigaction(sigact, "SIGCHLD", ReaperDisposition)
    /\ ninstall' = ninstall + 1
    /\ UNCHANGED << pc, hpc, loc, pty_mutex, ptys, children, pending >>

\* the system delivers the pending SIGCHLD to a thread that does not block
\* it; while the handler runs on a thread, SIGCHLD is blocked for it
Deliver(t) ==
    /\ pending
    /\ hpc[t] = "none"
    /\ sigact["SIGCHLD"].handler = "sigchld_handler"
    /\ hpc' = [ hpc EXCEPT ![t] = "loop" ]
    /\ pending' = FALSE
    /\ loc' = [ loc EXCEPT ![t].interrupted = @ \/ InCritical(t) ]
    /\ UNCHANGED << pc, pty_mutex, ptys, children, sigact, ninstall >>

\* line 90 with "if" for "while": one waitpid for each invocation
Waitpid_Once(t) ==
    /\ hpc[t] = "loop"
    /\ IF Zombies # {}
       THEN \E z \in Zombies :
               children' = [ children EXCEPT ![z] = ReapedChild ]
       ELSE UNCHANGED children
    /\ hpc' = [ hpc EXCEPT ![t] = "none" ]
    /\ UNCHANGED << pc, loc, pty_mutex, ptys, sigact, pending, ninstall >>

\* line 90 without WNOHANG: waitpid waits while a child is still running
Waitpid_Blocking(t) ==
    /\ hpc[t] = "loop"
    /\ IF Zombies # {}
       THEN /\ \E z \in Zombies :
                  children' = [ children EXCEPT ![z] = ReapedChild ]
            /\ UNCHANGED hpc
       ELSE /\ \A i \in 1..Len(children) : children[i].st = "reaped"
            /\ hpc' = [ hpc EXCEPT ![t] = "none" ]
            /\ UNCHANGED children
    /\ UNCHANGED << pc, loc, pty_mutex, ptys, sigact, pending, ninstall >>

\* a handler that takes pty_mutex around its waitpid
Waitpid_Locking(t) ==
    /\ hpc[t] = "loop"
    /\ pty_mutex = NoThread
    /\ IF Zombies # {}
       THEN /\ \E z \in Zombies :
                  children' = [ children EXCEPT ![z] = ReapedChild ]
            /\ UNCHANGED hpc
       ELSE /\ hpc' = [ hpc EXCEPT ![t] = "none" ]
            /\ UNCHANGED children
    /\ UNCHANGED << pc, loc, pty_mutex, ptys, sigact, pending, ninstall >>

\* line 90, one evaluation of the loop condition: waitpid(-1, NULL, WNOHANG)
\* reaps one terminated child, or returns 0 or -1 and the handler returns
Waitpid(t) ==
    /\ hpc[t] = "loop"
    /\ IF Zombies # {}
       THEN /\ \E z \in Zombies :
                  children' = [ children EXCEPT ![z] = ReapedChild ]
            /\ UNCHANGED hpc
       ELSE /\ hpc' = [ hpc EXCEPT ![t] = "none" ]
            /\ UNCHANGED children
    /\ UNCHANGED << pc, loc, pty_mutex, ptys, sigact, pending, ninstall >>

(* ------------------------------ the caller ----------------------------- *)
\* the host closes a master descriptor that a spawn has returned to it
Close(i) ==
    /\ i \in 1..Len(ptys)
    /\ ptys[i].open /\ ptys[i].owned
    /\ ptys' = [ ptys EXCEPT ![i] = ClosedPty ]
    /\ UNCHANGED << pc, hpc, loc, pty_mutex, children, sigact, pending,
                    ninstall >>

Next ==
    \/ \E t \in Threads :
          \/ SpawnCall(t) \/ SpawnLock(t) \/ Forkpty(t)
          \/ SpawnFail(t) \/ SpawnParent(t)
          \/ ResizeCall(t) \/ ResizeLock(t) \/ Ioctl(t)
          \/ ResizeFail(t) \/ ResizeOk(t)
          \/ Deliver(t) \/ Waitpid(t)
    \/ \E i \in Threads : ChildRun(i) \/ ShellExit(i) \/ Close(i)
    \/ InitSignalHandlers

Spec == Init /\ [][Next]_vars

\* the steps the system owes: a thread inside a call takes its next step
\* (the lock once it is free), a forked child runs, a pending signal is
\* delivered and the handler runs on; callers, shells and the host's close
\* and install are under no obligation
Progress ==
    \/ \E t \in Threads :
          \/ SpawnLock(t) \/ Forkpty(t) \/ SpawnFail(t) \/ SpawnParent(t)
          \/ ResizeLock(t) \/ Ioctl(t) \/ ResizeFail(t) \/ ResizeOk(t)
          \/ Deliver(t) \/ Waitpid(t)
    \/ \E i \in Threads : ChildRun(i)

\* the scheduler does not stop while one of these steps can be taken
Fairness == WF_vars(Progress)

FairSpec == Spec /\ Fairness

\* one spawn, with the paths of the argv[0] derivation
ArgvSpawnCall == SpawnCallWith(1, ArgvArgs(LoginArgSize))

ArgvNext ==
    \/ ArgvSpawnCall
    \/ SpawnLock(1) \/ Forkpty(1) \/ SpawnFail(1) \/ SpawnParent(1)
    \/ ChildRun(1) \/ ShellExit(1)

SpecArgv == Init /\ [][ArgvNext]_vars

\* one spawn, with the sizes of the LINES and COLUMNS derivation
SizeSpawnCall == SpawnCallWith(1, SizeArgs)

SizeNext ==
    \/ SizeSpawnCall
    \/ SpawnLock(1) \/ Forkpty(1) \/ SpawnFail(1) \/ SpawnParent(1)
    \/ ChildRun(1) \/ ShellExit(1)

SpecSize == Init /\ [][SizeNext]_vars

\* the shell that a spawn of /bin/zsh with 24 rows and 80 columns leaves
\* behind once its child has run: process pid on PTY pty
ZshChild(pid, pty, masters) ==
    ChildBranch([ pid |-> pid, pty |-> pty, st |-> "forked", status |-> 0,
                  shell_path |-> BinZsh, rows |-> 24, cols |-> 80,
                  mutex |-> "held", env |-> HostEnv, login_arg |-> << >>,
                  argv |-> << >>, sig |-> HostSignals, log |-> << >>,
                  masters |-> masters, notified |-> FALSE,
                  inherited |-> HostSignals ])

\* the host after two spawns of /bin/zsh have returned and their children
\* have become shells: two PTYs, on descriptors 3 and 4, owned by the caller
ResizeInit ==
    /\ pc = [ t \in Threads |-> "idle" ]
    /\ hpc = [ t \in Threads |-> "none" ]
    /\ loc = [ t \in Threads |-> NoCall ]
    /\ pty_mutex = NoThread
    /\ ptys = [ i \in 1..2 |->
                  [ fd |-> LowestFree(3..(i + 1)), open |-> TRUE,
                    owned |-> TRUE, row |-> U16(24), col |-> U16(80) ] ]
    /\ children = << ZshChild(1, 1, {}), ZshChild(2, 2, {1}) >>
    /\ sigact = HostSignals
    /\ pending = FALSE
    /\ ninstall = 0

\* resize calls on these PTYs, while shells end, the host closes
\* descriptors and installs the handler, and the handler runs
ResizeNext ==
    \/ \E t \in Threads :
          \/ ResizeCall(t) \/ ResizeLock(t) \/ Ioctl(t)
          \/ ResizeFail(t) \/ ResizeOk(t)
          \/ Deliver(t) \/ Waitpid(t)
    \/ \E i \in 1..2 : ShellExit(i) \/ Close(i)
    \/ InitSignalHandlers

SpecResize == ResizeInit /\ [][ResizeNext]_vars

(* ------------------------------ properties ----------------------------- *)
SpawnDone(t) == pc[t] = "done" /\ loc[t].op = "spawn"
ResizeDone(t) == pc[t] = "done" /\ loc[t].op = "resize"

\* C1: at most one thread is between its pthread_mutex_lock and its unlock:
\* no two forkpty calls, no two ioctls and no forkpty with an ioctl are in
\* progress at the same time
C1_MutualExclusion ==
    \A t, u \in Threads : t # u => ~(InCritical(t) /\ InCritical(u))

\* one thread is in its critical section while another waits for the lock
C1_Witness ==
    \E t, u \in Threads :
        t # u /\ InCritical(t) /\ pc[u] \in { "sp_lock", "rs_lock" }

\* C2: a spawn returns once, either with a descriptor >= 0, *child_pid > 0
\* and exactly one new child and one new PTY, or with -1, no new child and
\* no new descriptor left open
C2_SpawnOutcome ==
    \A t \in Threads :
        /\ pc[t] \in { "sp_lock", "sp_forkpty", "sp_fail", "sp_parent" }
              => loc[t].nret = 0
        /\ SpawnDone(t) =>
              /\ loc[t].nret = 1
              /\ \/ /\ loc[t].ret >= 0
                    /\ loc[t].child_pid > 0
                    /\ loc[t].new_children = 1
                    /\ loc[t].new_ptys = 1
                    /\ loc[t].new_open = 1
                 \/ /\ loc[t].ret = -1
                    /\ loc[t].new_children = 0
                    /\ loc[t].new_open = 0

\* one spawn has returned a descriptor and another has returned -1
C2_Witness ==
    \E t, u \in Threads :
        /\ SpawnDone(t) /\ loc[t].ret >= 0
        /\ SpawnDone(u) /\ loc[u].ret = -1

\* the descriptor a spawn returned is still open, its child not yet reaped
Intact(t) ==
    /\ ptys[loc[t].pty].open
    /\ children[loc[t].child].st # "reaped"

\* C3: two successful spawns return different pids and different
\* descriptors, as long as the earlier descriptor has not been closed and
\* the earlier child has not been reaped
C3_Distinct ==
    \A t, u \in Threads :
        ( /\ SpawnDone(t) /\ loc[t].ret >= 0
          /\ SpawnDone(u) /\ loc[u].ret >= 0
          /\ loc[t].child < loc[u].child
          /\ Intact(t) )
        => /\ loc[t].ret # loc[u].ret
           /\ loc[t].child_pid # loc[u].child_pid

\* two spawns have succeeded and what the earlier returned is still in use
C3_Witness ==
    \E t, u \in Threads :
        /\ SpawnDone(t) /\ loc[t].ret >= 0
        /\ SpawnDone(u) /\ loc[u].ret >= 0
        /\ loc[t].child < loc[u].child
        /\ Intact(t)

\* C10: the lock is released on every exit path: it is held only by a
\* thread inside its critical section, so it is free whenever no spawn or
\* resize is in progress, also after a spawn or a resize that failed
C10_LockReleased ==
    pty_mutex # NoThread => InCritical(pty_mutex)

\* a spawn and a resize have both failed and returned, and the lock is free
C10_Witness ==
    \E t, u \in Threads :
        /\ SpawnDone(t) /\ loc[t].ret = -1
        /\ ResizeDone(u) /\ loc[u].ret = -1
        /\ pty_mutex = NoThread

\* C4 as stated: a resize of an open master returned by a spawn returns 0
\* and leaves the PTY with exactly rows rows and cols columns, for any
\* positive integers rows and cols
C4_AnyPositive ==
    \A t \in Threads :
        /\ (pc[t] = "rs_ok" /\ ptys[loc[t].pty].open)
              => /\ ptys[loc[t].pty].row = loc[t].rows
                 /\ ptys[loc[t].pty].col = loc[t].cols
        /\ (ResizeDone(t) /\ loc[t].pty # 0) => loc[t].ret = 0

\* C4, amended: a resize of an open master returned by a spawn returns 0
\* and leaves the PTY with rows mod 65536 rows and cols mod 65536 columns,
\* which are rows and cols exactly when both are at most 65535
C4_Within16Bits ==
    \A t \in Threads :
        /\ (pc[t] = "rs_ok" /\ ptys[loc[t].pty].open)
              => /\ ptys[loc[t].pty].row = loc[t].rows % 65536
                 /\ ptys[loc[t].pty].col = loc[t].cols % 65536
                 /\ (loc[t].rows <= 65535 /\ loc[t].cols <= 65535)
                       => /\ ptys[loc[t].pty].row = loc[t].rows
                          /\ ptys[loc[t].pty].col = loc[t].cols
        /\ (ResizeDone(t) /\ loc[t].pty # 0) => loc[t].ret = 0

\* a resize with a size of at most 65535 each way has set the size of an
\* open PTY and has not yet released the lock
C4_Witness ==
    \E t \in Threads :
        /\ pc[t] = "rs_ok" /\ ptys[loc[t].pty].open
        /\ loc[t].rows <= 65535 /\ loc[t].cols <= 65535
        /\ ptys[loc[t].pty].owned

Child(i) ==
    IF i <= Len(children) THEN children[i]
    ELSE [ ReapedChild EXCEPT !.st = "unborn" ]

ChildSt(i) == Child(i).st

\* C6: once the handler is installed, a child that terminates is eventually
\* reaped, also when the signals of several children are merged into one
C6_EventuallyReaped ==
    \A i \in Threads :
        (ChildSt(i) = "zombie" /\ Child(i).notified)
        ~> (ChildSt(i) = "reaped")

\* two children have terminated under the handler and one SIGCHLD is
\* pending for both
C6_Witness ==
    /\ Cardinality(Zombies) >= 2
    /\ \A z \in Zombies : children[z].notified
    /\ pending
    /\ \A t \in Threads : hpc[t] = "none"

\* C7: every call of kobold_init_signal_handlers leaves SIGCHLD with the
\* handler, the flags SA_RESTART and SA_NOCLDSTOP and an empty mask, and a
\* call after the first changes nothing
C7_Idempotent ==
    [][ninstall' # ninstall =>
         /\ sigact'["SIGCHLD"] =
               [ handler |-> "sigchld_handler",
                 flags |-> { "SA_RESTART", "SA_NOCLDSTOP" }, mask |-> {} ]
         /\ \A s \in Signals \ { "SIGCHLD" } : sigact'[s] = sigact[s]
         /\ ninstall >= 1 => sigact' = sigact
         /\ UNCHANGED << pc, hpc, loc, pty_mutex, ptys, children, pending >>
      ]_vars

\* the handler has been installed twice, with a child already forked
C7_Witness ==
    /\ ninstall >= 2
    /\ sigact["SIGCHLD"] = ReaperDisposition
    /\ children # << >>

BadPath(i) == children[i].shell_path = Nonexistent

\* C8: the child of a spawn with a path that cannot be executed never
\* becomes a shell and never holds the master; it ends, with status 127,
\* and then holds no descriptor at all
C8_BadPathExits ==
    /\ [](\A i \in 1..Len(children) :
             BadPath(i) =>
                /\ children[i].st \in { "forked", "zombie" }
                /\ children[i].pty \notin children[i].masters
                /\ children[i].st = "zombie" =>
                      /\ children[i].status = 127
                      /\ children[i].masters = {})
    /\ \A i \in Threads :
          (ChildSt(i) = "forked" /\ Child(i).shell_path = Nonexistent)
          ~> (ChildSt(i) = "zombie" /\ Child(i).status = 127)

\* the caller holds the descriptor of a spawn whose child has ended with 127
C8_Witness ==
    \E t \in Threads :
        /\ SpawnDone(t) /\ loc[t].ret >= 0
        /\ BadPath(loc[t].child)
        /\ children[loc[t].child].st = "zombie"
        /\ children[loc[t].child].status = 127

\* the last path segment: the text after the last '/', all of the text
\* when there is none
LastSegment(s) ==
    LET first == CHOOSE k \in 1..(Len(s) + 1) :
                    /\ \A j \in k..Len(s) : s[j] # "/"
                    /\ k = 1 \/ s[k - 1] = "/"
    IN  SubSeq(s, first, Len(s))

\* C9 as stated: for every shell_path the shell is executed with exactly
\* one argument, argv[0], which is "-" followed by the last path segment of
\* shell_path
C9_ArgvEveryPath ==
    \A i \in 1..Len(children) :
        children[i].st = "shell" =>
            children[i].argv =
                << << "-" >> \o LastSegment(children[i].shell_path) >>

\* C9 for the names that fit login_arg: the shell is executed with exactly
\* one argument, "-" followed by the last path segment, whenever that
\* segment has at most 254 characters
C9_ArgvShortNames ==
    \A i \in 1..Len(children) :
        ( /\ children[i].st = "shell"
          /\ Len(LastSegment(children[i].shell_path)) <= LoginArgSize - 2 )
        => children[i].argv =
               << << "-" >> \o LastSegment(children[i].shell_path) >>

\* a shell runs whose path has a last segment of 255 characters
C9_LongNameRuns ==
    \E i \in 1..Len(children) :
        /\ children[i].st = "shell"
        /\ Len(LastSegment(children[i].shell_path)) = LoginArgSize - 1

\* how often entry e occurs in the log of a child
Count(log, e) == Cardinality({ k \in 1..Len(log) : log[k] = e })

\* the child has run its branch and has not been waited for
HasRun(i) == children[i].st \in { "shell", "zombie" }

\* C11: the child starts with the copy of the lock held by its only thread;
\* the first thing its branch does is one unlock of that copy, and it never
\* locks or unlocks again, whether the exec succeeds or fails; the step of
\* the child leaves the lock of the parent as it is
C11_ChildUnlocksOnce ==
    /\ [](\A i \in 1..Len(children) :
             /\ children[i].st = "forked" =>
                   children[i].mutex = "held" /\ children[i].log = << >>
             /\ HasRun(i) =>
                   /\ children[i].log[1] = "unlock"
                   /\ Count(children[i].log, "unlock") = 1
                   /\ Count(children[i].log, "lock") = 0
                   /\ children[i].mutex = "free")
    /\ [][\A i \in 1..Len(children) :
            (children[i].st = "forked" /\ children'[i].st # "forked")
            => pty_mutex' = pty_mutex /\ pc' = pc]_vars

\* one child has become a shell and another has failed to exec, both while
\* the parent that forked the second still holds the lock
C11_Witness ==
    \E i, j \in 1..Len(children), t \in Threads :
        /\ children[i].st = "shell"
        /\ children[j].st = "zombie" /\ children[j].status = 127
        /\ pc[t] = "sp_parent" /\ pty_mutex = t /\ loc[t].child = j

\* where entry e stands in the log of a child
Pos(log, e) == CHOOSE k \in 1..Len(log) : log[k] = e

\* C12: when the child execs, SIGINT, SIGQUIT, SIGTSTP, SIGPIPE, SIGCHLD,
\* SIGHUP and SIGTERM all have the default disposition in it, whatever it
\* inherited; the reset comes after the environment and before the exec,
\* and the step of the child leaves the dispositions of the parent alone
C12_DefaultsAtExec ==
    /\ [](\A i \in 1..Len(children) :
             HasRun(i) =>
                /\ \A sg \in { "SIGINT", "SIGQUIT", "SIGTSTP", "SIGPIPE",
                                "SIGCHLD", "SIGHUP", "SIGTERM" } :
                       children[i].sig[sg] =
                          [ handler |-> "SIG_DFL", flags |-> {}, mask |-> {} ]
                /\ Pos(children[i].log, "setenv")
                      < Pos(children[i].log, "sigaction")
                /\ Pos(children[i].log, "sigaction")
                      < Pos(children[i].log, "execl"))
    /\ [][\A i \in 1..Len(children) :
            (children[i].st = "forked" /\ children'[i].st # "forked")
            => sigact' = sigact]_vars

\* a shell runs that was forked with the reaper on SIGCHLD and handlers of
\* the host on the other signals, and the parent still has them all
C12_Witness ==
    \E i \in 1..Len(children) :
        /\ children[i].st = "shell"
        /\ children[i].inherited["SIGCHLD"] = ReaperDisposition
        /\ children[i].inherited["SIGINT"] = HostDisposition
        /\ sigact = children[i].inherited

\* C13: the handler never takes, releases or waits for pty_mutex: while it
\* runs on a thread, that thread holds the lock after a step exactly when it
\* held it before, and its call stands still; a handler that starts on a
\* thread inside the critical section ends, and the interrupted call then
\* goes on to its return, the lock released
C13_HandlerLeavesLock ==
    /\ [][\A t \in Threads :
            (hpc[t] = "loop" \/ hpc'[t] = "loop")
            => /\ (pty_mutex' = t) <=> (pty_mutex = t)
               /\ pc'[t] = pc[t]]_vars
    /\ \A t \in Threads :
          (hpc[t] = "loop" /\ InCritical(t) /\ pty_mutex = t)
          ~> (hpc[t] = "none" /\ pc[t] = "done" /\ pty_mutex # t)

\* a call has returned that was interrupted by the handler inside its
\* critical section, and the lock is free
C13_Witness ==
    \E t \in Threads :
        /\ pc[t] = "done" /\ loc[t].interrupted
        /\ hpc[t] = "none"
        /\ pty_mutex = NoThread

\* C14: every run of the handler ends. A child is waited for only when it
\* has terminated, only while a handler runs, one child in a step, and once:
\* what has been reaped stays reaped; the handler returns only when no
\* terminated child is left, and it returns without waiting for the
\* children that still run
C14_HandlerTerminates ==
    /\ [][/\ \A i \in 1..Len(children) :
              /\ children[i].st = "reaped" => children'[i] = children[i]
              /\ (children[i].st # "reaped" /\ children'[i].st = "reaped")
                 => /\ children[i].st = "zombie"
                    /\ \E t \in Threads : hpc[t] = "loop" /\ hpc'[t] = "loop"
                    /\ Len(children') = Len(children)
                    /\ \A j \in 1..Len(children) :
                          j # i => children'[j] = children[j]
          /\ \A t \in Threads :
              (hpc[t] = "loop" /\ hpc'[t] = "none")
              => Zombies = {} /\ children' = children]_vars
    /\ \A t \in Threads : (hpc[t] = "loop") ~> (hpc[t] = "none")

\* a handler that ran inside a call has returned: a child has been reaped,
\* no terminated child is left and a shell is still running
C14_Witness ==
    \E t \in Threads, i, j \in 1..Len(children) :
        /\ loc[t].interrupted /\ hpc[t] = "none"
        /\ \A u \in Threads : hpc[u] = "none"
        /\ children[i].st = "reaped"
        /\ children[j].st = "shell"
        /\ Zombies = {} /\ ~pending

\* the places of a call between its entry and its return
InCall == { "sp_lock", "sp_forkpty", "sp_fail", "sp_parent",
            "rs_lock", "rs_ioctl", "rs_fail", "rs_ok" }

\* C15: under fair scheduling every spawn call and every resize call
\* returns, whatever the other threads and the handler do; and a spawn that
\* has forked can return at once, whatever its child has done so far
C15_CallsReturn ==
    /\ \A t \in Threads : (pc[t] \in InCall) ~> (pc[t] = "done")
    /\ [](\A t \in Threads :
             (pc[t] = "sp_parent" /\ hpc[t] = "none")
             => ENABLED SpawnParent(t))

\* a spawn has returned while its child has not yet run, and a resize of
\* the other thread has returned too
C15_Witness ==
    \E t, u \in Threads :
        /\ SpawnDone(t) /\ loc[t].ret >= 0
        /\ children[loc[t].child].st = "forked"
        /\ ResizeDone(u)

\* the window size of PTY i differs between the two states of a step; a PTY
\* the host has closed has no size any more
SizeChanged(i) ==
    /\ ptys'[i].open
    /\ ptys'[i].row # ptys[i].row \/ ptys'[i].col # ptys[i].col

\* C16: the steps of a resize that ends with -1 leave every PTY as it is;
\* the size of a PTY changes only in the step of a TIOCSWINSZ request that
\* succeeds, which sets rows and columns together to the ws of the call,
\* and that call returns 0
C16_FailureChangesNothing ==
    /\ [][/\ \A i \in 1..Len(ptys) :
              SizeChanged(i) =>
                 \E t \in Threads :
                    /\ pc[t] = "rs_ioctl" /\ pc'[t] = "rs_ok"
                    /\ loc'[t].pty = i
                    /\ ptys'[i].row = loc[t].ws_row
                    /\ ptys'[i].col = loc[t].ws_col
          /\ \A t \in Threads :
              ( /\ pc'[t] # pc[t]
                /\ \/ pc'[t] \in { "rs_lock", "rs_ioctl", "rs_fail" }
                   \/ pc[t] = "rs_fail" )
              => ptys' = ptys]_vars
    /\ [](\A t \in Threads :
             /\ (ResizeDone(t) /\ loc[t].ret = -1) => loc[t].pty = 0
             /\ pc[t] = "rs_ok" => loc[t].pty # 0)

\* a resize has returned -1 while a PTY was open, which still has the size
\* it was created with
C16_Witness ==
    \E t \in Threads, i \in 1..Len(ptys) :
        /\ ResizeDone(t) /\ loc[t].ret = -1
        /\ loc[t].fd \in FDs
        /\ ptys[i].open /\ ptys[i].owned
        /\ ptys[i].row = 24 /\ ptys[i].col = 80

\* C17: a spawn whose fork succeeded returns the master descriptor (>= 0)
\* and a pid > 0, and only a spawn that forked nothing returns -1; the
\* step in which the child execs or fails to exec changes nothing of the
\* parent's call, and it makes the child a shell or ends it with status
\* 127: the child is never back in the code of the host
C17_ExecFailureUnreported ==
    /\ [](\A t \in Threads :
             SpawnDone(t) =>
                IF loc[t].child # 0
                THEN /\ loc[t].ret >= 0
                     /\ loc[t].child_pid > 0
                     /\ ptys[loc[t].pty].open => ptys[loc[t].pty].fd = loc[t].ret
                ELSE loc[t].ret = -1)
    /\ [](\A i \in 1..Len(children) :
             children[i].st \in { "forked", "shell", "zombie", "reaped" })
    /\ [][\A i \in 1..Len(children) :
            (children[i].st = "forked" /\ children'[i].st # "forked")
            => /\ pc' = pc /\ loc' = loc /\ ptys' = ptys
               /\ \/ children'[i].st = "shell"
                  \/ children'[i].st = "zombie" /\ children'[i].status = 127]_vars

\* two spawns have returned a descriptor and a pid; the child of one is a
\* shell, the child of the other has failed to exec and ended with 127
C17_Witness ==
    \E t, u \in Threads :
        /\ SpawnDone(t) /\ loc[t].ret >= 0 /\ loc[t].child_pid > 0
        /\ SpawnDone(u) /\ loc[u].ret >= 0 /\ loc[u].child_pid > 0
        /\ children[loc[t].child].st = "shell"
        /\ children[loc[u].child].st = "zombie"
        /\ children[loc[u].child].status = 127

\* the number a text of decimal digits stands for
DigitValue(ch) == CHOOSE d \in 0..9 : Digit(d) = ch

RECURSIVE Atoi(_)
Atoi(s) ==
    IF s = << >> THEN 0
    ELSE 10 * Atoi(SubSeq(s, 1, Len(s) - 1)) + DigitValue(s[Len(s)])

\* C18 as stated: for every spawn with positive rows and cols, LINES and
\* COLUMNS in the environment of the child are the rows and columns of the
\* window size of the new PTY, also when rows or cols exceed 65535
C18_EnvMatchesWindow ==
    \A i \in 1..Len(children) :
        HasRun(i) =>
            /\ Atoi(children[i].env.LINES) = ptys[children[i].pty].row
            /\ Atoi(children[i].env.COLUMNS) = ptys[children[i].pty].col

\* C18 within 16 bits: LINES and COLUMNS are the requested rows and cols,
\* the window size is their 16-bit truncation, and the two agree whenever
\* rows and cols are at most 65535
C18_EnvMatchesWithin16Bits ==
    \A i \in 1..Len(children) :
        HasRun(i) =>
            /\ Atoi(children[i].env.LINES) = children[i].rows
            /\ Atoi(children[i].env.COLUMNS) = children[i].cols
            /\ ptys[children[i].pty].row = children[i].rows % 65536
            /\ ptys[children[i].pty].col = children[i].cols % 65536
            /\ (children[i].rows <= 65535 /\ children[i].cols <= 65535)
               => /\ Atoi(children[i].env.LINES) = ptys[children[i].pty].row
                  /\ Atoi(children[i].env.COLUMNS)
                        = ptys[children[i].pty].col

\* a shell runs that was spawned with 65537 rows
C18_LargeRowsRuns ==
    \E i \in 1..Len(children) :
        /\ children[i].st = "shell"
        /\ children[i].rows = 65537
        /\ ptys[children[i].pty].open

\* thread t takes a step of a resize call
ResizeStep(t) == pc'[t] # pc[t] /\ loc'[t].op = "resize"

\* C19: a step of a resize call leaves the children, the descriptors, the
\* signal dispositions, the pending signal and the other threads as they
\* are, and every PTY but the one its descriptor refers to; the call takes
\* the free lock once and frees it with its return, so pty_mutex, the only
\* variable of the module, is after the call what it was before
C19_ResizeFrame ==
    /\ [][\A t \in Threads :
            ResizeStep(t) =>
               /\ children' = children /\ sigact' = sigact
               /\ pending' = pending /\ hpc' = hpc /\ ninstall' = ninstall
               /\ \A u \in Threads \ { t } :
                     pc'[u] = pc[u] /\ loc'[u] = loc[u]
               /\ Len(ptys') = Len(ptys)
               /\ \A i \in 1..Len(ptys) :
                     /\ ptys'[i].fd = ptys[i].fd
                     /\ ptys'[i].open = ptys[i].open
                     /\ ptys'[i].owned = ptys[i].owned
                     /\ i # PtyOf(loc'[t].fd) => ptys'[i] = ptys[i]
               /\ IF pc'[t] = "rs_ioctl"
                  THEN pty_mutex = NoThread /\ pty_mutex' = t
                  ELSE IF pc'[t] = "done"
                  THEN pty_mutex = t /\ pty_mutex' = NoThread
                  ELSE pty_mutex' = pty_mutex]_vars
    /\ [](\A t \in Threads : ResizeDone(t) => pty_mutex # t)

\* a resize of one of two open PTYs has returned 0: that PTY has the new
\* size, the other the size it was created with, and the lock is free
C19_Witness ==
    \E t \in Threads, i, j \in 1..Len(ptys) :
        /\ ResizeDone(t) /\ loc[t].ret = 0 /\ loc[t].pty = i
        /\ ptys[i].open /\ ptys[i].row = 1
        /\ j # i /\ ptys[j].open /\ ptys[j].row = 24
        /\ pty_mutex = NoThread

====
